---- MODULE Spec2Model ----
(***************************************************************************)
(* Model of practice1.c: a Linux kernel module that drives two LEDs from   *)
(* four push buttons.  ebbgpio_init requests and configures six GPIO lines *)
(* and registers four rising-edge interrupt handlers; each handler writes  *)
(* an LED flag, drives the LED line, launches a user-mode helper and       *)
(* increments a press counter; ebbgpio_exit tears everything down.         *)
(*                                                                         *)
(* The function bodies are straight-line code, so each is written as a     *)
(* table in source order: InitProg and ExitProg hold one entry per         *)
(* statement that changes state, HandlerProg one entry per access to       *)
(* shared state.  Handlers of different buttons interleave freely with     *)
(* each other and with init/exit; a handler never overlaps itself (its     *)
(* interrupt line is masked while it runs).  The printk and gpio_get_value *)
(* calls change no state and are left out, except the counter reports of   *)
(* ebbgpio_exit.                                                           *)
(***************************************************************************)
EXTENDS Integers, Sequences, FiniteSets, TLC

(* ---- bounds ---- *)
\* total number of button edges delivered in one behaviour
MaxEdges == 2
\* number of faults the platform injects in one behaviour: pins it reports
\* invalid, pins already owned by another driver, interrupt binds it rejects,
\* helper launches it fails
MaxFaults == 1

(* ---- program constants ---- *)
gpioLED1 == 14
gpioLED2 == 15
gpioButtonA == 8
gpioButtonB == 7
gpioButtonC == 23
gpioButtonD == 24
DebounceMs == 200
ENODEV == 19
EBUSY == 16
EINVAL == 22
ENOMEM == 12
\* a counter that ebbgpio_exit has not printed yet (no count is negative)
NotReported == -1

Leds == {"LED1", "LED2"}
Buttons == {"A", "B", "C", "D"}
Names == Leds \cup Buttons

\* the static pin variables gpioLED1 .. gpioButtonD
gpio == [LED1 |-> gpioLED1, LED2 |-> gpioLED2, A |-> gpioButtonA,
         B |-> gpioButtonB, C |-> gpioButtonC, D |-> gpioButtonD]
Pins == {gpio[n] : n \in Names}

\* handler A writing the flag of the second LED
HandlerLedSwapped == [A |-> "LED2", B |-> "LED1", C |-> "LED2", D |-> "LED2"]

\* the LED flag each handler assigns, and the constant it assigns to it
HandlerLed == [A |-> "LED1", B |-> "LED1", C |-> "LED2", D |-> "LED2"]
HandlerValue == [A |-> TRUE, B |-> FALSE, C |-> TRUE, D |-> FALSE]

\* bool -> int conversion applied when a bool is passed as gpio_set_value's int
BoolToInt(b) == IF b THEN 1 ELSE 0

\* statement tables: op, operand (LED or button name), source line
Stmt(o, a, l) == [op |-> o, arg |-> a, ln |-> l]

InitProg ==
  << Stmt("is_valid", "LED1", 65), Stmt("is_valid", "LED2", 70),
     Stmt("set_flag", "LED1", 75), Stmt("set_flag", "LED2", 76),
     Stmt("request", "LED1", 77), Stmt("request", "LED2", 78),
     Stmt("dir_out", "LED1", 79), Stmt("dir_out", "LED2", 80),
     Stmt("export", "LED1", 82), Stmt("export", "LED2", 83),
     Stmt("request", "A", 85), Stmt("dir_in", "A", 86), Stmt("debounce", "A", 87),
     Stmt("request", "B", 88), Stmt("dir_in", "B", 89), Stmt("debounce", "B", 90),
     Stmt("request", "C", 91), Stmt("dir_in", "C", 92), Stmt("debounce", "C", 93),
     Stmt("request", "D", 94), Stmt("dir_in", "D", 95), Stmt("debounce", "D", 96),
     Stmt("to_irq", "A", 105), Stmt("to_irq", "B", 107),
     Stmt("to_irq", "C", 109), Stmt("to_irq", "D", 111),
     Stmt("request_irq", "A", 116), Stmt("request_irq", "B", 122),
     Stmt("request_irq", "C", 127), Stmt("request_irq", "D", 132),
     Stmt("return", "A", 139) >>

ExitProg ==
  << Stmt("report_early", "D", 149),
     Stmt("set_off", "LED1", 150), Stmt("set_off", "LED2", 151),
     Stmt("unexport", "LED1", 152), Stmt("unexport", "LED2", 153),
     Stmt("free_irq", "A", 154), Stmt("unexport", "A", 155),
     Stmt("free_irq", "B", 156), Stmt("unexport", "B", 157),
     Stmt("free_irq", "C", 158), Stmt("unexport", "C", 159),
     Stmt("free_irq", "D", 160), Stmt("unexport", "D", 161),
     Stmt("gpio_free", "LED1", 162), Stmt("gpio_free", "LED2", 163),
     Stmt("gpio_free", "A", 164), Stmt("gpio_free", "B", 165),
     Stmt("gpio_free", "C", 166), Stmt("gpio_free", "D", 167),
     Stmt("report", "A", 168), Stmt("report", "B", 169),
     Stmt("report", "C", 170), Stmt("report", "D", 171) >>

\* the steps of one handler, in source order: "flag" assigns ledNOn, "arg"
\* evaluates the argument ledNOn of gpio_set_value, "write" is the call,
\* "notify" is call_usermodehelper followed by the load of ++, "store" is the
\* store of ++ and the return
HandlerProg == << "flag", "arg", "write", "notify", "store" >>

VARIABLES
  valid,          \* platform: gpio_is_valid of each pin
  owner0,         \* line-ownership table before the module is loaded
  owner,          \* line-ownership table: "free", "self", "other"
  dir,            \* direction of each line: "none", "in", "out"
  value,          \* value driven on each line, 0 or 1
  debounce,       \* debounce window of each line in ms
  exported,       \* line visible in sysfs
  ledOn,          \* led1On, led2On
  numberPresses,  \* numberPressesA .. numberPressesD
  irqNumber,      \* irqNumberA .. irqNumberD
  irqBound,       \* a handler is registered for the button's interrupt
  reqResult,      \* value returned by gpio_request for each pin (discarded by
                  \* init); 0 until the call is made
  result,         \* resultA .. resultD
  initRet,        \* value returned by ebbgpio_init, once phase # "init"
  phase,          \* "init", "running", "failed", "exit", "unloaded"
  pc,             \* index of the next statement of InitProg / ExitProg
  hpc,            \* per handler: 0 when idle, else index of its next step
  harg,           \* per handler: evaluated argument of gpio_set_value
  htmp,           \* per handler: counter value loaded by ++
  launch,         \* per handler: value returned by call_usermodehelper
                  \* (discarded by the handler)
  entryFlag,      \* per handler: value of its LED flag when it was entered
  edges,          \* per button: number of handler invocations
  submitted,      \* per button: number of call_usermodehelper submissions
  report,         \* counter values printed by ebbgpio_exit
  oops            \* the kernel jumped into freed module text

vars == << valid, owner0, owner, dir, value, debounce, exported, ledOn,
           numberPresses, irqNumber, irqBound, reqResult, result, initRet,
           phase, pc, hpc, harg, htmp, launch, entryFlag, edges, submitted,
           report, oops >>

lineVars == << owner, dir, value, debounce, exported >>
envVars == << valid, owner0 >>
handlerVars == << hpc, harg, htmp, launch, entryFlag, edges, submitted >>

ReportKeys == Buttons \cup {"Dearly"}

\* platform configurations: at most MaxFaults pins are invalid or owned by
\* another driver; an invalid pin has no owner
Configs ==
  { c \in [v : SUBSET Pins, o : SUBSET Pins] :
      /\ c.v \cap c.o = {}
      /\ Cardinality(c.v) + Cardinality(c.o) <= MaxFaults }

Init ==
  /\ \E c \in Configs :
       /\ valid = [p \in Pins |-> p \notin c.v]
       /\ owner0 = [p \in Pins |-> IF p \in c.o THEN "other" ELSE "free"]
  /\ owner = owner0
  /\ dir = [p \in Pins |-> "none"]
  /\ value = [p \in Pins |-> 0]
  /\ debounce = [p \in Pins |-> 0]
  /\ exported = [p \in Pins |-> FALSE]
  /\ ledOn = [l \in Leds |-> FALSE]
  /\ numberPresses = [b \in Buttons |-> 0]
  /\ irqNumber = [b \in Buttons |-> 0]
  /\ irqBound = [b \in Buttons |-> FALSE]
  /\ reqResult = [p \in Pins |-> 0]
  /\ result = [b \in Buttons |-> 0]
  /\ initRet = 0
  /\ phase = "init"
  /\ pc = 1
  /\ hpc = [b \in Buttons |-> 0]
  /\ harg = [b \in Buttons |-> FALSE]
  /\ htmp = [b \in Buttons |-> 0]
  /\ launch = [b \in Buttons |-> 0]
  /\ entryFlag = [b \in Buttons |-> FALSE]
  /\ edges = [b \in Buttons |-> 0]
  /\ submitted = [b \in Buttons |-> 0]
  /\ report = [k \in ReportKeys |-> NotReported]
  /\ oops = FALSE

(* ---- the kernel services the module calls ---- *)

\* first interrupt number of the GPIO bank ("GPIO numbers and IRQ numbers are
\* not the same")
IrqBase == 100

\* gpio_request: -EINVAL for an invalid pin, -EBUSY for a pin that is already
\* requested (by anyone), else 0 and the caller owns the line
gpio_request(p) ==
  IF ~valid[p] THEN -EINVAL
  ELSE IF owner[p] # "free" THEN -EBUSY
  ELSE 0

\* gpio_to_irq returns an int, a negative errno for an invalid pin.  The
\* module stores it in an unsigned int; the model keeps the same 32 bits read
\* as a signed value, so the stored errno is negative here and is
\* 2^32 - EINVAL in the program, which is no interrupt number either.
gpio_to_irq(p) == IF valid[p] THEN IrqBase + p ELSE -EINVAL

\* faults injected so far
FaultsSoFar ==
  Cardinality({p \in Pins : ~valid[p]})
    + Cardinality({p \in Pins : owner0[p] = "other"})
    + Cardinality({b \in Buttons : result[b] = -EBUSY})
    + Cardinality({b \in Buttons : launch[b] # 0})

\* request_irq: a number that is no interrupt is rejected with -EINVAL;
\* otherwise the platform accepts the registration or rejects it with -EBUSY
request_irq(irq) ==
  IF irq < 0 THEN {-EINVAL}
  ELSE IF FaultsSoFar < MaxFaults THEN {0, -EBUSY}
  ELSE {0}

\* init leaving the flags at their static initialiser
LedAtStartOff == FALSE

\* value ebbgpio_init assigns to led1On and led2On (lines 75-76)
LedAtStart == TRUE

\* an increment whose store is lost
IncPressesLost(n) == n

\* numberPressesX++ (an unsigned int: it wraps at 2^32, which no behaviour of
\* at most MaxEdges edges reaches)
IncPresses(n) == n + 1

(* ---- ebbgpio_init ---- *)

AtInit(o) == phase = "init" /\ ~oops /\ InitProg[pc].op = o
InitArg == InitProg[pc].arg
InitPin == gpio[InitArg]

InitIsValid ==
  /\ AtInit("is_valid")
  /\ IF valid[InitPin]
       THEN /\ pc' = pc + 1
            /\ UNCHANGED << initRet, phase >>
       ELSE /\ initRet' = -ENODEV
            /\ phase' = "failed"
            /\ pc' = 1
  /\ UNCHANGED << envVars, lineVars, ledOn, numberPresses, irqNumber, irqBound,
                  reqResult, result, handlerVars, report, oops >>

InitSetFlag ==
  /\ AtInit("set_flag")
  /\ ledOn' = [ledOn EXCEPT ![InitArg] = LedAtStart]
  /\ pc' = pc + 1
  /\ UNCHANGED << envVars, lineVars, numberPresses, irqNumber, irqBound,
                  reqResult, result, initRet, phase, handlerVars, report, oops >>

InitRequest ==
  /\ AtInit("request")
  /\ reqResult' = [reqResult EXCEPT ![InitPin] = gpio_request(InitPin)]
  /\ owner' = IF gpio_request(InitPin) = 0
                THEN [owner EXCEPT ![InitPin] = "self"]
                ELSE owner
  /\ pc' = pc + 1
  /\ UNCHANGED << envVars, dir, value, debounce, exported, ledOn, numberPresses,
                  irqNumber, irqBound, result, initRet, phase, handlerVars,
                  report, oops >>

\* gpio_direction_output(pin, ledNOn): no ownership check in the kernel
InitDirOut ==
  /\ AtInit("dir_out")
  /\ IF valid[InitPin]
       THEN /\ dir' = [dir EXCEPT ![InitPin] = "out"]
            /\ value' = [value EXCEPT ![InitPin] = BoolToInt(ledOn[InitArg])]
       ELSE UNCHANGED << dir, value >>
  /\ pc' = pc + 1
  /\ UNCHANGED << envVars, owner, debounce, exported, ledOn, numberPresses,
                  irqNumber, irqBound, reqResult, result, initRet, phase,
                  handlerVars, report, oops >>

\* gpio_export succeeds on a requested line that is not yet exported
InitExport ==
  /\ AtInit("export")
  /\ exported' = IF valid[InitPin] /\ owner[InitPin] # "free"
                   THEN [exported EXCEPT ![InitPin] = TRUE]
                   ELSE exported
  /\ pc' = pc + 1
  /\ UNCHANGED << envVars, owner, dir, value, debounce, ledOn, numberPresses,
                  irqNumber, irqBound, reqResult, result, initRet, phase,
                  handlerVars, report, oops >>

InitDirIn ==
  /\ AtInit("dir_in")
  /\ dir' = IF valid[InitPin] THEN [dir EXCEPT ![InitPin] = "in"] ELSE dir
  /\ pc' = pc + 1
  /\ UNCHANGED << envVars, owner, value, debounce, exported, ledOn, numberPresses,
                  irqNumber, irqBound, reqResult, result, initRet, phase,
                  handlerVars, report, oops >>

InitDebounce ==
  /\ AtInit("debounce")
  /\ debounce' = IF valid[InitPin]
                   THEN [debounce EXCEPT ![InitPin] = DebounceMs]
                   ELSE debounce
  /\ pc' = pc + 1
  /\ UNCHANGED << envVars, owner, dir, value, exported, ledOn, numberPresses,
                  irqNumber, irqBound, reqResult, result, initRet, phase,
                  handlerVars, report, oops >>

InitToIrq ==
  /\ AtInit("to_irq")
  /\ irqNumber' = [irqNumber EXCEPT ![InitArg] = gpio_to_irq(InitPin)]
  /\ pc' = pc + 1
  /\ UNCHANGED << envVars, lineVars, ledOn, numberPresses, irqBound, reqResult,
                  result, initRet, phase, handlerVars, report, oops >>

InitRequestIrq ==
  /\ AtInit("request_irq")
  /\ \E r \in request_irq(irqNumber[InitArg]) :
       /\ result' = [result EXCEPT ![InitArg] = r]
       /\ irqBound' = [irqBound EXCEPT ![InitArg] = (r = 0)]
  /\ pc' = pc + 1
  /\ UNCHANGED << envVars, lineVars, ledOn, numberPresses, irqNumber, reqResult,
                  initRet, phase, handlerVars, report, oops >>

\* "return resultA": a non-zero return makes the kernel discard the module
\* (ebbgpio_exit is never called for it)
InitReturn ==
  /\ AtInit("return")
  /\ initRet' = result[InitArg]
  /\ phase' = IF result[InitArg] = 0 THEN "running" ELSE "failed"
  /\ pc' = 1
  /\ UNCHANGED << envVars, lineVars, ledOn, numberPresses, irqNumber, irqBound,
                  reqResult, result, handlerVars, report, oops >>

ebbgpio_init ==
  \/ InitIsValid \/ InitSetFlag \/ InitRequest \/ InitDirOut \/ InitExport
  \/ InitDirIn \/ InitDebounce \/ InitToIrq \/ InitRequestIrq \/ InitReturn

(* ---- the four interrupt handlers ---- *)

EdgesSoFar == edges["A"] + edges["B"] + edges["C"] + edges["D"]

\* index of a step in HandlerProg; hpc is the index of the next step to run
HandlerPos(st) == CHOOSE i \in 1..Len(HandlerProg) : HandlerProg[i] = st

AtHandler(b, st) == ~oops /\ hpc[b] > 0 /\ HandlerProg[hpc[b]] = st

\* a rising edge on button b is delivered (the handler is registered and is
\* not already running) and the handler runs its first statement,
\* ledNOn = true / false
HandlerFlag(b) ==
  /\ ~oops
  /\ irqBound[b]
  /\ hpc[b] = 0
  /\ EdgesSoFar < MaxEdges
  /\ edges' = [edges EXCEPT ![b] = @ + 1]
  /\ entryFlag' = [entryFlag EXCEPT ![b] = ledOn[HandlerLed[b]]]
  /\ ledOn' = [ledOn EXCEPT ![HandlerLed[b]] = HandlerValue[b]]
  /\ hpc' = [hpc EXCEPT ![b] = HandlerPos("arg")]
  /\ UNCHANGED << envVars, lineVars, numberPresses, irqNumber, irqBound,
                  reqResult, result, initRet, phase, pc, harg, htmp, launch,
                  submitted, report, oops >>

\* the argument ledNOn of gpio_set_value is read from the shared flag
HandlerArg(b) ==
  /\ AtHandler(b, "arg")
  /\ harg' = [harg EXCEPT ![b] = ledOn[HandlerLed[b]]]
  /\ hpc' = [hpc EXCEPT ![b] = @ + 1]
  /\ UNCHANGED << envVars, lineVars, ledOn, numberPresses, irqNumber, irqBound,
                  reqResult, result, initRet, phase, pc, htmp, launch,
                  entryFlag, edges, submitted, report, oops >>

\* gpio_set_value(gpioLEDn, ledNOn)
HandlerWrite(b) ==
  /\ AtHandler(b, "write")
  /\ value' = [value EXCEPT ![gpio[HandlerLed[b]]] = BoolToInt(harg[b])]
  /\ hpc' = [hpc EXCEPT ![b] = @ + 1]
  /\ UNCHANGED << envVars, owner, dir, debounce, exported, ledOn, numberPresses,
                  irqNumber, irqBound, reqResult, result, initRet, phase, pc,
                  harg, htmp, launch, entryFlag, edges, submitted, report,
                  oops >>

\* a handler that returns without launching its helper
SubmitSkipped(n) == n

\* one invocation of a handler makes one call of call_usermodehelper
Submit(n) == n + 1

\* call_usermodehelper with UMH_NO_WAIT queues the helper and returns at once:
\* 0, or an error when the helper cannot be queued
call_usermodehelper == IF FaultsSoFar < MaxFaults THEN {0, -ENOMEM} ELSE {0}

\* call_usermodehelper(argvN[0], argvN, envp, UMH_NO_WAIT), result ignored;
\* then numberPressesX++ loads the counter
HandlerNotify(b) ==
  /\ AtHandler(b, "notify")
  /\ submitted' = [submitted EXCEPT ![b] = Submit(@)]
  /\ \E rc \in call_usermodehelper : launch' = [launch EXCEPT ![b] = rc]
  /\ htmp' = [htmp EXCEPT ![b] = numberPresses[b]]
  /\ hpc' = [hpc EXCEPT ![b] = @ + 1]
  /\ UNCHANGED << envVars, lineVars, ledOn, numberPresses, irqNumber, irqBound,
                  reqResult, result, initRet, phase, pc, harg, entryFlag,
                  edges, report, oops >>

\* numberPressesX++ : store, then return IRQ_HANDLED
HandlerStore(b) ==
  /\ AtHandler(b, "store")
  /\ numberPresses' = [numberPresses EXCEPT ![b] = IncPresses(htmp[b])]
  /\ hpc' = [hpc EXCEPT ![b] = 0]
  /\ harg' = [harg EXCEPT ![b] = FALSE]
  /\ htmp' = [htmp EXCEPT ![b] = 0]
  /\ launch' = [launch EXCEPT ![b] = 0]
  /\ entryFlag' = [entryFlag EXCEPT ![b] = FALSE]
  /\ UNCHANGED << envVars, lineVars, ledOn, irqNumber, irqBound, reqResult,
                  result, initRet, phase, pc, edges, submitted, report, oops >>

\* an edge on a button whose handler is still registered after init failed:
\* the module text is gone, the kernel may jump into freed memory
DanglingEdge(b) ==
  /\ ~oops
  /\ phase = "failed"
  /\ irqBound[b]
  /\ hpc[b] = 0
  /\ oops' = TRUE
  /\ UNCHANGED << envVars, lineVars, ledOn, numberPresses, irqNumber, irqBound,
                  reqResult, result, initRet, phase, pc, handlerVars, report >>

ebbgpio_irq_handler(b) ==
  \/ HandlerFlag(b) \/ HandlerArg(b) \/ HandlerWrite(b)
  \/ HandlerNotify(b) \/ HandlerStore(b)

(* ---- ebbgpio_exit ---- *)

\* rmmod: only a module whose init returned 0 is loaded and can be removed
Rmmod ==
  /\ ~oops
  /\ phase = "running"
  /\ phase' = "exit"
  /\ pc' = 1
  /\ UNCHANGED << envVars, lineVars, ledOn, numberPresses, irqNumber, irqBound,
                  reqResult, result, initRet, handlerVars, report, oops >>

AtExit(o) == phase = "exit" /\ ~oops /\ ExitProg[pc].op = o
ExitArg == ExitProg[pc].arg
ExitPin == gpio[ExitArg]

\* move to the next statement; after the last one the module is unloaded
ExitAdvance ==
  IF pc = Len(ExitProg)
    THEN pc' = 1 /\ phase' = "unloaded"
    ELSE pc' = pc + 1 /\ phase' = phase

ExitReportEarly ==
  /\ AtExit("report_early")
  /\ report' = [report EXCEPT !["Dearly"] = numberPresses[ExitArg]]
  /\ ExitAdvance
  /\ UNCHANGED << envVars, lineVars, ledOn, numberPresses, irqNumber, irqBound,
                  reqResult, result, initRet, handlerVars, oops >>

\* gpio_set_value(gpioLEDn, 0)
ExitSetOff ==
  /\ AtExit("set_off")
  /\ value' = [value EXCEPT ![ExitPin] = 0]
  /\ ExitAdvance
  /\ UNCHANGED << envVars, owner, dir, debounce, exported, ledOn, numberPresses,
                  irqNumber, irqBound, reqResult, result, initRet, handlerVars,
                  report, oops >>

ExitUnexport ==
  /\ AtExit("unexport")
  /\ exported' = [exported EXCEPT ![ExitPin] = FALSE]
  /\ ExitAdvance
  /\ UNCHANGED << envVars, owner, dir, value, debounce, ledOn, numberPresses,
                  irqNumber, irqBound, reqResult, result, initRet, handlerVars,
                  report, oops >>

\* a free_irq that does not wait for a running handler
ExitFreeIrqNoSync ==
  /\ AtExit("free_irq")
  /\ irqBound' = [irqBound EXCEPT ![ExitArg] = FALSE]
  /\ ExitAdvance
  /\ UNCHANGED << envVars, lineVars, ledOn, numberPresses, irqNumber, reqResult,
                  result, initRet, handlerVars, report, oops >>

\* free_irq returns only when the handler is not running
ExitFreeIrq ==
  /\ AtExit("free_irq")
  /\ hpc[ExitArg] = 0
  /\ irqBound' = [irqBound EXCEPT ![ExitArg] = FALSE]
  /\ ExitAdvance
  /\ UNCHANGED << envVars, lineVars, ledOn, numberPresses, irqNumber, reqResult,
                  result, initRet, handlerVars, report, oops >>

\* gpio_free clears the requested flag whoever set it, and unexports
ExitGpioFree ==
  /\ AtExit("gpio_free")
  /\ IF valid[ExitPin]
       THEN /\ owner' = [owner EXCEPT ![ExitPin] = "free"]
            /\ exported' = [exported EXCEPT ![ExitPin] = FALSE]
       ELSE UNCHANGED << owner, exported >>
  /\ ExitAdvance
  /\ UNCHANGED << envVars, dir, value, debounce, ledOn, numberPresses, irqNumber,
                  irqBound, reqResult, result, initRet, handlerVars, report, oops >>

ExitReport ==
  /\ AtExit("report")
  /\ report' = [report EXCEPT ![ExitArg] = numberPresses[ExitArg]]
  /\ ExitAdvance
  /\ UNCHANGED << envVars, lineVars, ledOn, numberPresses, irqNumber, irqBound,
                  reqResult, result, initRet, handlerVars, oops >>

ebbgpio_exit ==
  \/ ExitReportEarly \/ ExitSetOff \/ ExitUnexport \/ ExitFreeIrq
  \/ ExitGpioFree \/ ExitReport

Next ==
  \/ ebbgpio_init
  \/ Rmmod
  \/ ebbgpio_exit
  \/ \E b \in Buttons : ebbgpio_irq_handler(b)
  \/ \E b \in Buttons : DanglingEdge(b)

Spec == Init /\ [][Next]_vars

(* ---- properties ---- *)

\* a handler is past a step once its position is beyond the step's index
Past(b, st) == hpc[b] > HandlerPos(st)
AllIdle == \A b \in Buttons : hpc[b] = 0

\* the LED each button is wired to drive
BoundLed == [A |-> "LED1", B |-> "LED1", C |-> "LED2", D |-> "LED2"]

\* C1: every handled edge toggles the button's LED: once the handler has written
\* the LED line, the LED flag and the value it wrote are the negation of the
\* flag at handler entry.
C1_HandlerTogglesLed ==
  \A b \in Buttons :
    Past(b, "write") =>
      /\ ledOn[BoundLed[b]] = ~entryFlag[b]
      /\ harg[b] = ~entryFlag[b]
      /\ value[gpio[BoundLed[b]]] = BoolToInt(~entryFlag[b])

\* C2: a step of button b's handler leaves the other buttons' counters, the
\* other LED's flag and the other LED's line value unchanged.
C2_HandlerFrame ==
  [][ \A b \in Buttons :
        hpc'[b] # hpc[b] =>
          /\ \A c \in Buttons \ {b} : numberPresses'[c] = numberPresses[c]
          /\ \A l \in Leds \ {BoundLed[b]} :
               /\ ledOn'[l] = ledOn[l]
               /\ value'[gpio[l]] = value[gpio[l]] ]_vars

\* button B was handled once: its counter and LED1 changed, nothing else did
C2_Witness ==
  /\ AllIdle
  /\ numberPresses = [b \in Buttons |-> IF b = "B" THEN 1 ELSE 0]
  /\ ~ledOn["LED1"] /\ value[gpioLED1] = 0
  /\ ledOn["LED2"] /\ value[gpioLED2] = 1

\* C3: each press counter never decreases, changes only by +1 and only when its
\* own handler returns, and while that handler is idle it equals the number of
\* edges handled for the button, under every interleaving of the handlers.
C3_CounterExactlyOne ==
  /\ [](\A b \in Buttons : hpc[b] = 0 => numberPresses[b] = edges[b])
  /\ [][ \A b \in Buttons :
           \/ numberPresses'[b] = numberPresses[b]
           \/ /\ numberPresses'[b] = numberPresses[b] + 1
              /\ hpc[b] # 0 /\ hpc'[b] = 0 ]_vars

\* a button was handled twice and its handler has returned
C3_Witness ==
  \E b \in Buttons : hpc[b] = 0 /\ numberPresses[b] = 2 /\ edges[b] = 2

\* C4: when ebbgpio_exit has completed, every LED line is off.
C4_LedsOffAfterStop ==
  phase = "unloaded" => \A l \in Leds : value[gpio[l]] = 0

\* C5: after init followed by exit the line-ownership table is what it was
\* before init: acquired lines are free again, foreign lines are untouched.
C5_OwnershipRestored ==
  phase = "unloaded" => owner = owner0

\* error of one statement of ebbgpio_init, 0 when it succeeded or did not run
StmtError(i) ==
  LET st == InitProg[i] IN
  CASE st.op = "is_valid" -> IF valid[gpio[st.arg]] THEN 0 ELSE -ENODEV
    [] st.op = "request" -> reqResult[gpio[st.arg]]
    [] st.op = "request_irq" -> result[st.arg]
    [] OTHER -> 0

FirstError ==
  LET F == {i \in 1..Len(InitProg) : StmtError(i) # 0} IN
  IF F = {} THEN 0
  ELSE StmtError(CHOOSE i \in F : \A j \in F : i <= j)

\* C6: ebbgpio_init returns the first failure of its acquisitions and interrupt
\* binds, and returns 0 only when all of them succeeded.
C6_FirstErrorReturned ==
  phase # "init" => initRet = FirstError

\* C7: after ebbgpio_init returned an error no interrupt handler is registered.
C7_FailedStartLeavesNoBinding ==
  phase = "failed" => \A b \in Buttons : ~irqBound[b]

\* C8: with any configured pin invalid, ebbgpio_init fails and has acquired,
\* configured, exported or bound no line.
C8_InvalidPinNoSideEffects ==
  (\E p \in Pins : ~valid[p]) =>
    /\ phase # "init" => initRet # 0
    /\ \A p \in Pins :
         owner[p] = owner0[p] /\ dir[p] = "none" /\ debounce[p] = 0 /\ ~exported[p]
    /\ \A b \in Buttons : ~irqBound[b]

AcquireFailedBusy == \E p \in Pins : reqResult[p] = -EBUSY

\* C9: once an acquisition found its pin already owned, ebbgpio_init returns
\* -EBUSY and acquires, configures, exports and binds nothing more; direction,
\* value and debounce are only ever set on lines the module owns.
C9_BusyPinStopsStart ==
  /\ []((phase # "init" /\ AcquireFailedBusy) => initRet = -EBUSY)
  /\ [][ (phase = "init" /\ AcquireFailedBusy) =>
           /\ owner' = owner /\ dir' = dir /\ debounce' = debounce
           /\ exported' = exported /\ irqBound' = irqBound ]_vars
  /\ [][ \A p \in Pins :
           (dir'[p] # dir[p] \/ value'[p] # value[p] \/ debounce'[p] # debounce[p])
             => owner[p] = "self" ]_vars

StartedNoEdge == phase = "running" /\ EdgesSoFar = 0

C11_OneNotificationPerEdge ==
  /\ [](\A b \in Buttons : hpc[b] = 0 => submitted[b] = numberPresses[b])
  /\ [][ \A b \in Buttons :
           submitted'[b] # submitted[b] =>
             /\ submitted'[b] = submitted[b] + 1
             /\ \A c \in Buttons \ {b} : submitted'[c] = submitted[c]
             /\ numberPresses' = numberPresses
             /\ ledOn' = ledOn /\ value' = value ]_vars
  /\ [][ \A b \in Buttons :
           (hpc[b] # 0 /\ hpc'[b] = 0 /\ launch[b] # 0) =>
             numberPresses'[b] = numberPresses[b] + 1 ]_vars

\* the launch for a button's second edge failed after its first edge was
\* handled completely
C11_Witness ==
  \E b \in Buttons :
    /\ hpc[b] = HandlerPos("store") /\ launch[b] # 0
    /\ edges[b] = 2 /\ submitted[b] = 2 /\ numberPresses[b] = 1

\* ebbgpio_exit is about to turn off or unexport an LED line
ExitAtLed(l) ==
  /\ phase = "exit"
  /\ ExitProg[pc].op \in {"set_off", "unexport"}
  /\ ExitProg[pc].arg = l

\* C12: when ebbgpio_exit turns an LED off or unexports it, the interrupt of
\* every button that drives this LED is unbound and its handler has finished.
C12_UnbindBeforeLedOff ==
  \A l \in Leds : ExitAtLed(l) =>
    \A b \in Buttons : BoundLed[b] = l => (~irqBound[b] /\ hpc[b] = 0)

\* C13: the notification of an event is never submitted before the event's
\* counter increment: submissions never run ahead of the press counter.
C13_IncrementBeforeDispatch ==
  \A b \in Buttons : submitted[b] <= numberPresses[b]

\* the handlers that have written an LED's flag so far
LedWriters(l) == {b \in Buttons : HandlerLed[b] = l /\ edges[b] > 0}

\* C14: each LED flag and LED line is written by one button's handler only, and
\* no two handlers are at the same time in their writes of the same LED.
C14_ExclusiveLedWriter ==
  /\ \A l \in Leds : Cardinality(LedWriters(l)) <= 1
  /\ \A b, c \in Buttons :
       (b # c /\ HandlerLed[b] = HandlerLed[c]) =>
         ~(hpc[b] # 0 /\ ~Past(b, "write") /\ hpc[c] # 0 /\ ~Past(c, "write"))

\* C15: a button's interrupt is bound (and its handler runs) only when the
\* button line is acquired, an input and debounced with 200 ms, and the LED
\* line it writes is acquired and an output.
C15_BindAfterConfigure ==
  \A b \in Buttons :
    (irqBound[b] \/ hpc[b] # 0) =>
      /\ owner[gpio[b]] = "self"
      /\ dir[gpio[b]] = "in"
      /\ debounce[gpio[b]] = DebounceMs
      /\ owner[gpio[BoundLed[b]]] = "self"
      /\ dir[gpio[BoundLed[b]]] = "out"

\* position of a pin's gpio_request in ebbgpio_init
ReqIndex(p) ==
  CHOOSE i \in 1..Len(InitProg) :
    InitProg[i].op = "request" /\ gpio[InitProg[i].arg] = p

\* C16: ebbgpio_exit releases the lines in the reverse of their acquisition
\* order, each after its interrupt is unbound and its export is removed.
C16_ReverseTeardown ==
  [][ \A p \in Pins :
        (owner[p] = "self" /\ owner'[p] = "free") =>
          /\ \A q \in Pins : ReqIndex(q) > ReqIndex(p) => owner[q] # "self"
          /\ ~exported[p]
          /\ \A b \in Buttons : gpio[b] = p => ~irqBound[b] ]_vars

\* C17: a line is exported only while the module owns it, and only LED lines
\* are the target of gpio_export and gpio_unexport.
C17_ExportOnlyOwnedLeds ==
  /\ \A p \in Pins : exported[p] => owner[p] = "self"
  /\ (phase = "init" /\ InitProg[pc].op = "export") => InitProg[pc].arg \in Leds
  /\ (phase = "exit" /\ ExitProg[pc].op = "unexport") => ExitProg[pc].arg \in Leds

\* the counter a report line prints
ReportedButton(k) == IF k = "Dearly" THEN "D" ELSE k

\* C18: every counter value ebbgpio_exit reported equals the counter's value
\* when ebbgpio_exit completes.
C18_ReportsAreFinal ==
  phase = "unloaded" =>
    \A k \in ReportKeys : report[k] = numberPresses[ReportedButton(k)]

\* C19: while running with no handler in progress, each LED line carries the
\* value of its flag.
C19_LineMatchesFlag ==
  (phase = "running" /\ AllIdle) =>
    \A l \in Leds : value[gpio[l]] = BoolToInt(ledOn[l])

\* ebbgpio_exit has reached or passed its first gpio_free
ExitFreeing ==
  \/ phase = "unloaded"
  \/ phase = "exit" /\ \E i \in 1..pc : ExitProg[i].op = "gpio_free"

\* C20: from the first gpio_free of ebbgpio_exit on, no interrupt is bound and
\* no handler is in progress, so no handler touches a released line.
C20_NoHandlerAfterFree ==
  ExitFreeing => \A b \in Buttons : ~irqBound[b] /\ hpc[b] = 0

\* ebbgpio_exit is about to release a line it owns, after edges were handled
C20_Witness ==
  /\ phase = "exit" /\ ExitProg[pc].op = "gpio_free"
  /\ owner[gpio[ExitProg[pc].arg]] = "self"
  /\ EdgesSoFar >= 2

====
